---- MODULE Spec2Model ----
(***************************************************************************)
(* markdown-muncher: the code-fence info-string parser (parse), in its two *)
(* variants (handler-code-meta.mjs, which accepts key-only flags, and      *)
(* mdast-code-meta-to-dataset.mjs, which requires key=value), and the      *)
(* projection of the parsed attributes into a code node's                  *)
(* data.hProperties (preHandle / the metaToDataset visitor); the name       *)
(* mappers asDataAttr and asDataProp and the sweep of a HAST element's      *)
(* data into its properties (dataToProperties, hast-data-to-properties.mjs).*)
(*                                                                         *)
(* A JS string is a sequence of one-character strings; indices are the     *)
(* 0-based indices of the source (At, Slice).  A value that may be         *)
(* undefined is Undefined or Str(s).                                       *)
(***************************************************************************)
EXTENDS Integers, Sequences, FiniteSets, TLC

VARIABLES
    variant,      \* "handler" (handler-code-meta.mjs) or "plugin" (mdast-code-meta-to-dataset.mjs)
    meta,         \* node.meta
    lang,         \* node.lang
    hProperties,  \* node.data.hProperties
    langAttr,     \* options.langAttr
    include,      \* options.include
    result,       \* the ParseResult returned by the last call of parse
    matches,      \* the successive match objects of that call's while loop
    pc,           \* "ready", "returned" or "thrown"
    passes,       \* number of completed or attempted projections of the node
    writes,       \* the writes made to hProperties, in order, with the line that made them
    before,       \* node.meta and node.data.hProperties before the last projection
    attr,         \* the argument of asDataAttr(attr) and of asDataProp(prop)
    dataAttr,     \* what asDataAttr(attr) returned
    dataProp,     \* what asDataProp(attr) returned
    data,         \* the element's node.data: Undefined, or its entries in property order
    properties,   \* the element's node.properties
    filter,       \* options.filter.data
    debug,        \* the keys passed to console.debug, in order
    runs,         \* how often the transformer of dataToProperties ran on the element
    prev          \* node.data, node.properties and debug before the last run

codeVars == <<variant, meta, lang, hProperties, langAttr, include, result, matches,
              pc, passes, writes, before>>
hastVars == <<attr, dataAttr, dataProp, data, properties, filter, debug, runs, prev>>
vars == <<codeVars, hastVars>>

----------------------------------------------------------------------------
(* Bounds *)

\* Every string up to this length over Alphabet is an input of parse.
MaxLen == 5
\* Every string up to this length over MetaAlphabet is a node.meta to project.
MaxMetaLen == 3

----------------------------------------------------------------------------
(* JS values *)

Undefined == [def |-> FALSE]
Str(s) == [def |-> TRUE, str |-> s]

At(s, i) == s[i + 1]
Slice(s, from, to) == SubSeq(s, from + 1, to)
SetMax(S) == CHOOSE m \in S : \A n \in S : n <= m

Lower == {"a", "b", "c", "d", "e", "f", "g", "h", "i", "j", "k", "l", "m",
          "n", "o", "p", "q", "r", "s", "t", "u", "v", "w", "x", "y", "z"}
Digit == {"0", "1", "2", "3", "4", "5", "6", "7", "8", "9"}

\* \s and \S, on the characters the model uses
IsSpace(c) == c \in {" ", "\t", "\n", "\r", "\f"}
IsNonSpace(c) == ~IsSpace(c)
\* [a-z_] and [a-z0-9_.-]
IsKeyStart(c) == c \in Lower \cup {"_"}
IsKeyChar(c) == c \in Lower \cup Digit \cup {"_", ".", "-"}
\* ["']
IsQuote(c) == c \in {"\"", "'"}
\* . (no s flag): any character but a line terminator
IsDot(c) == c \notin {"\n", "\r"}

\* The end of the longest run of characters of the class cls that starts at i:
\* what a greedy X* reaches before any backtracking.
InClass(c, cls) ==
    CASE cls = "\\s" -> IsSpace(c)
      [] cls = "\\S" -> IsNonSpace(c)
      [] cls = "[a-z0-9_.-]" -> IsKeyChar(c)

RunEnd(s, i, cls) ==
    CHOOSE j \in i..Len(s) :
        /\ \A k \in i..(j - 1) : InClass(At(s, k), cls)
        /\ (j = Len(s) \/ ~InClass(At(s, j), cls))

----------------------------------------------------------------------------
(* The regular expression of parse, matched at a fixed index (sticky flag).
   A greedy quantifier takes the longest repetition for which the rest of
   the expression still matches: SetMax of the ends that let the rest match. *)

\* NotXml without the lookahead: a key may start with xml
NotXmlOff(s, ks) == TRUE

\* (?!xml) at ks
NotXml(s, ks) == ~(ks + 3 <= Len(s) /\ Slice(s, ks, ks + 3) = <<"x", "m", "l">>)

\* (?!xml)[a-z_] at ks
KeyStartsAt(s, ks) == ks < Len(s) /\ IsKeyStart(At(s, ks)) /\ NotXml(s, ks)

\* QvalStep without the escape: every quote character ends the value
QvalStepNoEscape(s, k, q) == At(s, k) # q /\ IsDot(At(s, k))

\* One iteration of (?:(?<=\\)\k<q>|(?!\k<q>).) at k
QvalStep(s, k, q) ==
    \/ (k >= 1 /\ At(s, k - 1) = "\\" /\ At(s, k) = q)
    \/ (At(s, k) # q /\ IsDot(At(s, k)))

\* Where (?<qval>(...)*) stops when it takes every iteration it can
QvalMax(s, v, q) ==
    CHOOSE j \in v..Len(s) :
        /\ \A k \in v..(j - 1) : QvalStep(s, k, q)
        /\ (j = Len(s) \/ ~QvalStep(s, j, q))

\* The ends of qval after which the closing \k<q> matches
QuoteEnds(s, v, q) ==
    {e \in v..QvalMax(s, v, q) : e < Len(s) /\ At(s, e) = q}

\* Value with an unquoted form that takes no quote character, [^\s"']*
IsBare(c) == ~IsSpace(c) /\ ~IsQuote(c)
BareEnd(s, i) ==
    CHOOSE j \in i..Len(s) :
        /\ \A k \in i..(j - 1) : IsBare(At(s, k))
        /\ (j = Len(s) \/ ~IsBare(At(s, j)))
ValueBareUnquoted(s, p) ==
    IF p < Len(s) /\ IsQuote(At(s, p)) /\ QuoteEnds(s, p + 1, At(s, p)) # {}
    THEN [kind |-> "qval", valAt |-> p + 1,
          val |-> Slice(s, p + 1, SetMax(QuoteEnds(s, p + 1, At(s, p)))),
          end |-> SetMax(QuoteEnds(s, p + 1, At(s, p))) + 1]
    ELSE [kind |-> "uval", valAt |-> p, val |-> Slice(s, p, BareEnd(s, p)),
          end |-> BareEnd(s, p)]

\* (?:(?<q>["'])(?<qval>...)\k<q>|(?<uval>\S*)) at p, the index after "="
Value(s, p) ==
    IF p < Len(s) /\ IsQuote(At(s, p)) /\ QuoteEnds(s, p + 1, At(s, p)) # {}
    THEN LET e == SetMax(QuoteEnds(s, p + 1, At(s, p)))
         IN  [kind |-> "qval", valAt |-> p + 1, val |-> Slice(s, p + 1, e), end |-> e + 1]
    ELSE LET e == RunEnd(s, p, "\\S")
         IN  [kind |-> "uval", valAt |-> p, val |-> Slice(s, p, e), end |-> e]

\* The "=value" group at k, the end of the key.  In the handler's expression
\* the group is optional, (?:=...)?, in the plugin's it is required.
HasEq(s, k) == k < Len(s) /\ At(s, k) = "="
GroupMatches(s, k, re) == HasEq(s, k) \/ re = "handler"
Group(s, k) ==
    IF HasEq(s, k) THEN Value(s, k + 1)
    ELSE [kind |-> "none", valAt |-> k, val |-> <<>>, end |-> k]

\* The ends of (?<key>...) started at ks after which the rest matches
KeyEnds(s, ks, re) ==
    {k \in (ks + 1)..RunEnd(s, ks + 1, "[a-z0-9_.-]") : GroupMatches(s, k, re)}

\* The ends of the leading \s* started at i after which the rest matches
KeyStarts(s, i, re) ==
    {ks \in i..RunEnd(s, i, "\\s") : KeyStartsAt(s, ks) /\ KeyEnds(s, ks, re) # {}}

NoMatch == [found |-> FALSE]

\* re.exec(meta) with re.lastIndex = i.  val is
\* match.groups.qval ?? match.groups.uval (?? '' in the handler).
Exec(s, i, re) ==
    IF KeyStarts(s, i, re) = {} THEN NoMatch
    ELSE LET ks == SetMax(KeyStarts(s, i, re))
             k  == SetMax(KeyEnds(s, ks, re))
             g  == Group(s, k)
         IN  [found |-> TRUE, index |-> i, keyAt |-> ks,
              key |-> Slice(s, ks, k), kind |-> g.kind, valAt |-> g.valAt,
              val |-> g.val,
              lastIndex |-> RunEnd(s, g.end, "\\s")]

\* The matches of the while loop, in order
RECURSIVE Matches(_, _, _)
Matches(s, lastIndex, re) ==
    LET match == Exec(s, lastIndex, re)
    IN  IF match.found THEN <<match>> \o Matches(s, match.lastIndex, re)
        ELSE <<>>

\* Lidx read from re.lastIndex after the loop, which the failed exec reset to 0
LidxOfRegExp(ms) == 0

\* lidx when the loop ends
Lidx(ms) == IF Len(ms) = 0 THEN 0 ELSE ms[Len(ms)].lastIndex

\* parseWith with the whitespace after the last match trimmed from rest
parseWithTrimmedRest(s, re) ==
    LET ms == Matches(s, 0, re)
        lidx == RunEnd(s, Lidx(ms), "\\s")
    IN  [attrs |-> [n \in 1..Len(ms) |-> [key |-> ms[n].key, val |-> ms[n].val]],
         rest |-> IF lidx < Len(s) THEN Str(Slice(s, lidx, Len(s))) ELSE Undefined]

parseWith(s, re) ==
    LET ms == Matches(s, 0, re)
        lidx == Lidx(ms)
    IN  [attrs |-> [n \in 1..Len(ms) |-> [key |-> ms[n].key, val |-> ms[n].val]],
         rest |-> IF lidx < Len(s) THEN Str(Slice(s, lidx, Len(s))) ELSE Undefined]

\* parse of handler-code-meta.mjs and parse of mdast-code-meta-to-dataset.mjs
parse(s) == parseWith(s, "handler")
parseDataset(s) == parseWith(s, "plugin")

----------------------------------------------------------------------------
(* Inputs *)

Alphabet == {"x", "m", "l", "-", "=", "\"", "'", "\\", " "}

Strings(A, n) == UNION {[1..k -> A] : k \in 0..n}

\* The examples of the doc comments and of the specification
Examples == {
    <<"h", "e", "l", "l", "o", "=", "w", "o", "r", "l", "d", " ",
      "f", "o", "o", "=", "b", "a", "r", "=", "b", "a", "z">>,
    <<"f", "o", "o", "=", "\"", "b", "a", "r", " ", "b", "a", "z", "\"", " ",
      "q", "u", "o", "t", "e", "=", "\"", "s", "a", "y", " ", "\\", "\"",
      "h", "i", "\\", "\"", "\"">>,
    <<"c", "a", "p", "t", "i", "o", "n", "=", "\"", "o", "o", "p", "s">>,
    <<"f", "o", "o", " ", "b", "a", "r">>,
    <<"f", "o", "o", "B", "a", "r">>,
    <<"k", "e", "y", "=", "\"", "a", "\\", "\"">>,
    <<"x", "m", "l", "-", "l", "a", "n", "g", "=", "e", "n">>,
    <<"s", "o", "u", "r", "c", "e", "-", "u", "r", "l", "=", "x">> }

Inputs == Strings(Alphabet, MaxLen) \cup Examples

NoResult == [called |-> FALSE]

----------------------------------------------------------------------------
(* Direct calls of the exported parse functions *)

\* No HAST element is involved: the variables of the sweep stay as they are
NoElement ==
    /\ attr = <<>>
    /\ dataAttr = NoResult
    /\ dataProp = NoResult
    /\ data = Undefined
    /\ properties = <<>>
    /\ filter = Undefined
    /\ debug = <<>>
    /\ runs = 0
    /\ prev = Undefined

Init ==
    /\ NoElement
    /\ variant \in {"handler", "plugin"}
    /\ meta \in {Str(s) : s \in Inputs}
    /\ lang = Undefined
    /\ hProperties = Undefined
    /\ langAttr = Undefined
    /\ include = [type |-> "boolean", val |-> FALSE]
    /\ result = NoResult
    /\ matches = <<>>
    /\ pc = "ready"
    /\ passes = 0
    /\ writes = <<>>
    /\ before = [meta |-> meta, hProperties |-> hProperties]

CallParse ==
    /\ pc = "ready"
    /\ variant = "handler"
    /\ result' = parse(meta.str)
    /\ matches' = Matches(meta.str, 0, "handler")
    /\ pc' = "returned"
    /\ UNCHANGED hastVars
    /\ UNCHANGED <<variant, meta, lang, hProperties, langAttr, include,
                   passes, writes, before>>

CallParseDataset ==
    /\ pc = "ready"
    /\ variant = "plugin"
    /\ result' = parseDataset(meta.str)
    /\ matches' = Matches(meta.str, 0, "plugin")
    /\ pc' = "returned"
    /\ UNCHANGED hastVars
    /\ UNCHANGED <<variant, meta, lang, hProperties, langAttr, include,
                   passes, writes, before>>

Next == CallParse \/ CallParseDataset

Spec == Init /\ [][Next]_vars

----------------------------------------------------------------------------
(* Properties of parse, checked under Spec *)

Returned == pc = "returned"

AllSpace(s) == \A i \in 1..Len(s) : IsSpace(s[i])

\* The key grammar: [a-z_][a-z0-9_.-]*, not starting with xml
IsKey(k) ==
    /\ Len(k) >= 1
    /\ IsKeyStart(k[1])
    /\ \A i \in 1..Len(k) : IsKeyChar(k[i])
    /\ ~(Len(k) >= 3 /\ SubSeq(k, 1, 3) = <<"x", "m", "l">>)

SetMin(S) == CHOOSE m \in S : \A n \in S : m <= n

\* The occurrences of q from index `from` on that no backslash precedes
UnescapedQuotes(s, from, q) ==
    {j \in from..(Len(s) - 1) : At(s, j) = q /\ At(s, j - 1) # "\\"}

\* s is key=Q body with no unescaped Q in body; eq is the index of "="
Unterminated(s, eq) ==
    /\ eq >= 1 /\ eq + 1 < Len(s)
    /\ IsKey(Slice(s, 0, eq))
    /\ At(s, eq) = "="
    /\ IsQuote(At(s, eq + 1))
    /\ UnescapedQuotes(s, eq + 2, At(s, eq + 1)) = {}

\* C1 as stated: a whitespace-only input of length >= 1 gives attrs = [] and
\* rest absent, like the empty string.
C1_Original ==
    (Returned /\ Len(meta.str) >= 1 /\ AllSpace(meta.str))
        => (result.attrs = <<>> /\ result.rest = Undefined)

\* C1 as amended: a whitespace-only input of length >= 1 gives attrs = [] and
\* rest equal to the whole input, the whitespace itself; only the empty
\* string gives rest absent.
C1_Theorem ==
    Returned =>
        /\ (Len(meta.str) >= 1 /\ AllSpace(meta.str))
              => (result.attrs = <<>> /\ result.rest = Str(meta.str))
        /\ meta.str = <<>> => (result.attrs = <<>> /\ result.rest = Undefined)

C1_Witness ==
    Returned /\ Len(meta.str) >= 2 /\ AllSpace(meta.str) /\ result.rest = meta

\* C2 as stated: for key=Q body with the quote never closed, no attribute is
\* produced and the whole token is returned in rest.
C2_Original ==
    Returned =>
        \A eq \in 1..Len(meta.str) :
            Unterminated(meta.str, eq)
                => (result.attrs = <<>> /\ result.rest = Str(meta.str))

\* C2 as amended: for key=Q body with the quote never closed, parse does
\* produce an attribute for the token: its key is key and rest is not the
\* token; when body holds no Q at all the value is the unquoted form, Q
\* followed by the characters of body up to its first whitespace.
C2_Theorem ==
    Returned =>
        \A eq \in 1..Len(meta.str) :
            Unterminated(meta.str, eq) =>
                LET s == meta.str
                    q == At(s, eq + 1)
                    stop == SetMin({j \in (eq + 1)..Len(s) :
                                       j = Len(s) \/ IsSpace(At(s, j))})
                IN  /\ Len(result.attrs) >= 1
                    /\ result.attrs[1].key = Slice(s, 0, eq)
                    /\ result.rest # Str(s)
                    /\ (\A j \in (eq + 2)..(Len(s) - 1) : At(s, j) # q)
                          => result.attrs[1].val = Slice(s, eq + 1, stop)

C2_Witness ==
    /\ Returned
    /\ \E eq \in 1..Len(meta.str) :
          /\ Unterminated(meta.str, eq)
          /\ eq + 2 < Len(meta.str)
          /\ At(meta.str, eq + 2) # "\\"
    /\ Len(result.attrs) = 1
    /\ result.attrs[1].val # <<>>
    /\ IsQuote(result.attrs[1].val[1])

\* C3 (handler variant): for a non-empty s with no "=", no quote and no
\* whitespace, attrs is [{key: s, val: ""}] when s matches the key grammar,
\* and otherwise attrs is [] and rest is s.
NoEqQuoteSpace(s) ==
    \A i \in 1..Len(s) : s[i] # "=" /\ ~IsQuote(s[i]) /\ ~IsSpace(s[i])

C3_Claim ==
    (Returned /\ variant = "handler" /\ Len(meta.str) >= 1 /\ NoEqQuoteSpace(meta.str))
        => IF IsKey(meta.str)
           THEN result.attrs = <<[key |-> meta.str, val |-> <<>>]>>
           ELSE result.attrs = <<>> /\ result.rest = Str(meta.str)

\* C4: the closing quote of every quoted value is not preceded by a backslash.
C4_Claim ==
    Returned =>
        \A n \in 1..Len(matches) :
            matches[n].kind = "qval"
                => At(meta.str, matches[n].valAt + Len(matches[n].val) - 1) # "\\"

\* The index after the key of the n-th match
KeyEnd(n) == matches[n].keyAt + Len(matches[n].key)

\* "=" at eq opens a quoted value that an unescaped quote closes
ClosedQuote(s, eq) ==
    /\ eq + 1 < Len(s)
    /\ At(s, eq) = "="
    /\ IsQuote(At(s, eq + 1))
    /\ UnescapedQuotes(s, eq + 2, At(s, eq + 1)) # {}

QuotedExample ==
    <<"f", "o", "o", "=", "\"", "b", "a", "r", " ", "b", "a", "z", "\"", " ",
      "q", "u", "o", "t", "e", "=", "\"", "s", "a", "y", " ", "\\", "\"",
      "h", "i", "\\", "\"", "\"">>

UnquotedExample ==
    <<"h", "e", "l", "l", "o", "=", "w", "o", "r", "l", "d", " ",
      "f", "o", "o", "=", "b", "a", "r", "=", "b", "a", "z">>

\* C6: when "=" is not followed by the opening quote of a closed quoted
\* value, the value is the longest run of non-whitespace characters after
\* "="; hello=world foo=bar=baz gives hello -> world, foo -> bar=baz, no rest.
C6_Claim ==
    Returned =>
        /\ \A n \in 1..Len(matches) :
              (HasEq(meta.str, KeyEnd(n)) /\ ~ClosedQuote(meta.str, KeyEnd(n)))
                  => result.attrs[n].val =
                        Slice(meta.str, KeyEnd(n) + 1,
                              RunEnd(meta.str, KeyEnd(n) + 1, "\\S"))
        /\ meta.str = UnquotedExample =>
              result = [attrs |-> <<[key |-> <<"h", "e", "l", "l", "o">>,
                                     val |-> <<"w", "o", "r", "l", "d">>],
                                    [key |-> <<"f", "o", "o">>,
                                     val |-> <<"b", "a", "r", "=", "b", "a", "z">>]>>,
                        rest |-> Undefined]

----------------------------------------------------------------------------
(* options.include: boolean | Boolean | string | RegExp | function | Array.
   A RegExp is one of the family /^prefix/ and a function is
   (key, val) => val !== '', enough to tell the branches apart. *)

BoolP(b) == [type |-> "boolean", val |-> b]
\* new Boolean(b), which `pred instanceof Boolean` lets in
BooleanObjectP(b) == [type |-> "Boolean", val |-> b]
StringP(k) == [type |-> "string", str |-> k]
RegExpP(prefix) == [type |-> "regexp", prefix |-> prefix]
FunctionP == [type |-> "function"]
ArrayP(ps) == [type |-> "array", elems |-> ps]
NullP == [type |-> "null"]

\* pred.test(key) for /^prefix/
Test(pred, key) ==
    Len(key) >= Len(pred.prefix) /\ Slice(key, 0, Len(pred.prefix)) = pred.prefix

\* applyPredicate of handler-code-meta.mjs; undefined (no branch taken) is
\* falsy for Array.prototype.filter and .some
RECURSIVE applyPredicate(_, _, _)
applyPredicate(pred, key, val) ==
    CASE pred.type = "boolean"  -> pred.val
      [] pred.type = "Boolean"  -> TRUE    \* !!pred of an object
      [] pred.type = "string"   -> pred.str = key
      [] pred.type = "regexp"   -> Test(pred, key)
      [] pred.type = "function" -> val # <<>>
      [] pred.type = "array"    ->
            \E n \in 1..Len(pred.elems) : applyPredicate(pred.elems[n], key, val)
      [] OTHER                  -> FALSE

\* applyFilter of mdast-code-meta-to-dataset.mjs.  Its Array branch calls
\* filter(flt, key, val), a name the module does not define: the callback of
\* some raises a ReferenceError as soon as it is called (a non-empty array).
applyFilter(flt, key, val) ==
    CASE flt.type = "boolean"  -> [threw |-> FALSE, value |-> flt.val]
      [] flt.type = "Boolean"  -> [threw |-> FALSE, value |-> TRUE]
      [] flt.type = "string"   -> [threw |-> FALSE, value |-> flt.str = key]
      [] flt.type = "regexp"   -> [threw |-> FALSE, value |-> Test(flt, key)]
      [] flt.type = "function" -> [threw |-> FALSE, value |-> val # <<>>]
      [] flt.type = "array"    -> [threw |-> Len(flt.elems) > 0, value |-> FALSE]
      [] OTHER                 -> [threw |-> FALSE, value |-> FALSE]

----------------------------------------------------------------------------
(* The property bag node.data.hProperties: Undefined, or Bag(f) with f a
   function from property names to values *)

Bag(f) == [def |-> TRUE, map |-> f]
EmptyMap == [n \in {} |-> <<>>]

\* `data-${key}`
DataName(key) == <<"d", "a", "t", "a", "-">> \o key

\* obj[name] = val
Put(f, name, val) ==
    [n \in DOMAIN f \cup {name} |-> IF n = name THEN val ELSE f[n]]

\* Boolean(x) of a string or null / undefined / false
Truthy(v) == v.def /\ v.str # <<>>

\* Filter that keeps every attribute, whatever the predicate
FilterAll(attrs, pred) == attrs

\* attrs.filter(({ key, val }) => applyPredicate(include, key, val))
RECURSIVE Filter(_, _)
Filter(attrs, pred) ==
    IF Len(attrs) = 0 THEN <<>>
    ELSE (IF applyPredicate(pred, attrs[1].key, attrs[1].val) THEN <<attrs[1]>> ELSE <<>>)
         \o Filter(Tail(attrs), pred)

\* Whether attrs.filter(({ key, val }) => applyFilter(include, key, val)) throws
FilterThrows(attrs, flt) ==
    \E n \in 1..Len(attrs) : applyFilter(flt, attrs[n].key, attrs[n].val).threw

\* attrs.filter(({ key, val }) => applyFilter(include, key, val)) when it returns
RECURSIVE FilterDataset(_, _)
FilterDataset(attrs, flt) ==
    IF Len(attrs) = 0 THEN <<>>
    ELSE (IF applyFilter(flt, attrs[1].key, attrs[1].val).value THEN <<attrs[1]>> ELSE <<>>)
         \o FilterDataset(Tail(attrs), flt)

\* Object.fromEntries(pairs.map(({key, val}) => [`data-${key}`, val])) as the
\* object's own entries in property order: a name keeps the place of its first
\* entry and the value of its last one.
FromEntries(attrs) ==
    LET first(n) == \A j \in 1..(n - 1) : attrs[j].key # attrs[n].key
        lastOf(k) == SetMax({j \in 1..Len(attrs) : attrs[j].key = k})
        RECURSIVE Build(_)
        Build(n) ==
            IF n > Len(attrs) THEN <<>>
            ELSE (IF first(n)
                  THEN <<[name |-> DataName(attrs[n].key),
                          val |-> attrs[lastOf(attrs[n].key)].val]>>
                  ELSE <<>>) \o Build(n + 1)
    IN  Build(1)

\* Object.assign(target, source): the source's entries written in order
RECURSIVE Assign(_, _)
Assign(f, entries) ==
    IF Len(entries) = 0 THEN f
    ELSE Assign(Put(f, entries[1].name, entries[1].val), Tail(entries))

\* The entries of the log of writes for one pass
Logged(entries, by) ==
    [n \in 1..Len(entries) |->
        [pass |-> passes + 1, name |-> entries[n].name, val |-> entries[n].val, by |-> by]]

\* LangEntries made subject to include, like the parsed attributes
LangEntriesIfIncluded ==
    IF Truthy(lang) /\ Truthy(langAttr) /\ applyPredicate(include, langAttr.str, lang.str)
    THEN <<[name |-> DataName(langAttr.str), val |-> lang.str]>>
    ELSE <<>>

\* if (node.lang && langAttr) node.data.hProperties[`data-${langAttr}`] = node.lang
LangEntries ==
    IF Truthy(lang) /\ Truthy(langAttr)
    THEN <<[name |-> DataName(langAttr.str), val |-> lang.str]>>
    ELSE <<>>

\* (node.data ??= {}).hProperties ??= {}
BagOrEmpty == IF hProperties.def THEN hProperties.map ELSE EmptyMap

----------------------------------------------------------------------------
(* Projection of a code node *)

MetaAlphabet == {"x", "m", "=", " "}

\* Info strings with a repeated key, a key equal to the language attribute,
\* an unparsed remainder, an unterminated quote and keys that start with xml
MetaExamples == {
    <<"x", "=", "m", " ", "x", "=", "x">>,
    <<"l", "a", "n", "g", "u", "a", "g", "e", "=", "x">>,
    <<"l", "a", "n", "g", "u", "a", "g", "e", "=", "x", " ", "x">>,
    <<"x", "=", "m", " ", "M", " ", "m">>,
    <<"c", "a", "p", "t", "i", "o", "n", "=", "\"", "o", "o", "p", "s">>,
    <<"x", "m", "l", "-", "l", "a", "n", "g", "=", "x">>,
    <<"m", ".", "x", "_", "1", "=", "x", " ", "x", "m", "l", "=", "m">> }

Metas == {Undefined} \cup {Str(s) : s \in Strings(MetaAlphabet, MaxMetaLen) \cup MetaExamples}

LangAttrs == {Str(<<"l", "a", "n", "g", "u", "a", "g", "e">>), Str(<<"x">>),
              Str(<<>>), Undefined}

Includes == {BoolP(FALSE), BoolP(TRUE), BooleanObjectP(FALSE),
             StringP(<<"x">>), RegExpP(<<"l">>),
             FunctionP, NullP, ArrayP(<<>>), ArrayP(<<StringP(<<"x">>), FunctionP>>)}

\* How often a node is projected at most
MaxPasses == 2

InitProject ==
    /\ NoElement
    /\ variant \in {"handler", "plugin"}
    /\ meta \in Metas
    /\ lang \in {Undefined, Str(<<"j", "s">>)}
    /\ hProperties = Undefined
    /\ langAttr \in LangAttrs
    /\ include \in Includes
    /\ result = NoResult
    /\ matches = <<>>
    /\ pc = "ready"
    /\ passes = 0
    /\ writes = <<>>
    /\ before = [meta |-> meta, hProperties |-> hProperties]

\* preHandle(node, langAttr, parser, include) of handler-code-meta.mjs
PreHandle ==
    /\ variant = "handler"
    /\ pc # "thrown"
    /\ passes < MaxPasses
    /\ passes' = passes + 1
    /\ before' = [meta |-> meta, hProperties |-> hProperties]
    /\ pc' = "returned"
    /\ IF ~Truthy(meta)
       THEN /\ hProperties' = Bag(Assign(BagOrEmpty, LangEntries))
            /\ writes' = writes \o Logged(LangEntries, "lang")
            /\ result' = NoResult
            /\ matches' = <<>>
            /\ UNCHANGED meta
       ELSE \E parsed \in {parse(meta.str)} :
            \E entries \in {FromEntries(Filter(parsed.attrs, include))} :
                /\ result' = parsed
                /\ matches' = Matches(meta.str, 0, "handler")
                /\ hProperties' = Bag(Assign(Assign(BagOrEmpty, LangEntries), entries))
                /\ writes' = writes \o Logged(LangEntries, "lang") \o Logged(entries, "attr")
                /\ meta' = IF Truthy(parsed.rest) THEN parsed.rest ELSE Undefined
    /\ UNCHANGED <<variant, lang, langAttr, include, hastVars>>

\* The visitor of metaToDataset(options) of mdast-code-meta-to-dataset.mjs
Visit ==
    /\ variant = "plugin"
    /\ pc # "thrown"
    /\ passes < MaxPasses
    /\ passes' = passes + 1
    /\ before' = [meta |-> meta, hProperties |-> hProperties]
    /\ IF ~Truthy(meta)
       THEN /\ pc' = "returned"
            /\ result' = NoResult
            /\ matches' = <<>>
            /\ UNCHANGED <<meta, hProperties, writes>>
       ELSE \E parsed \in {parseDataset(meta.str)} :
                /\ result' = parsed
                /\ matches' = Matches(meta.str, 0, "plugin")
                /\ IF FilterThrows(parsed.attrs, include)
                   THEN /\ pc' = "thrown"
                        /\ hProperties' = Bag(Assign(BagOrEmpty, LangEntries))
                        /\ writes' = writes \o Logged(LangEntries, "lang")
                        /\ UNCHANGED meta
                   ELSE \E entries \in {FromEntries(FilterDataset(parsed.attrs, include))} :
                        /\ pc' = "returned"
                        /\ hProperties' = Bag(Assign(Assign(BagOrEmpty, LangEntries), entries))
                        /\ writes' = writes \o Logged(LangEntries, "lang")
                                            \o Logged(entries, "attr")
                        /\ meta' = IF Truthy(parsed.rest) THEN parsed.rest ELSE Undefined
    /\ UNCHANGED <<variant, lang, langAttr, include, hastVars>>

NextProject == PreHandle \/ Visit

SpecProject == InitProject /\ [][NextProject]_vars

----------------------------------------------------------------------------
(* Properties of the projection, checked under SpecProject *)

\* The node was projected, and its meta was a non-empty string before
Projected == passes >= 1
ProjectedMeta == passes >= 1 /\ Truthy(before.meta)

\* The writes of the last pass
LastWrites == SelectSeq(writes, LAMBDA w : w.pass = passes)

\* The attribute's key and value are in the property bag
InBag(a) ==
    /\ hProperties.def
    /\ DataName(a.key) \in DOMAIN hProperties.map
    /\ hProperties.map[DataName(a.key)] = a.val

\* The attribute's key occurs in the text left in node.meta
InMeta(a) ==
    /\ meta.def
    /\ \E i \in 0..(Len(meta.str) - Len(a.key)) :
          Slice(meta.str, i, i + Len(a.key)) = a.key

\* The last of the parsed attributes with key k that include accepts
Accepted(n) == applyPredicate(include, result.attrs[n].key, result.attrs[n].val)
LastAccepted(k) ==
    SetMax({n \in 1..Len(result.attrs) : result.attrs[n].key = k /\ Accepted(n)})

\* C7 as stated: every parsed attribute is in the property bag or in the text
\* left in node.meta, for every include.
C7_Original ==
    ProjectedMeta => \A n \in 1..Len(result.attrs) :
                        InBag(result.attrs[n]) \/ InMeta(result.attrs[n])

\* C7 as amended: when project returns, every parsed attribute that include
\* accepts is in the property bag, data-<key> holding the value of the last
\* accepted attribute of that key; an attribute that include rejects is
\* written nowhere, and node.meta keeps only rest, so under the default
\* include = false every parsed attribute is gone from both.  When the
\* plugin's filter throws, nothing is written for the attributes and
\* node.meta is left as it was.
C7_Theorem ==
    ProjectedMeta =>
        IF pc = "thrown"
        THEN /\ meta = before.meta
             /\ \A i \in 1..Len(LastWrites) : LastWrites[i].by = "lang"
        ELSE /\ \A n \in 1..Len(result.attrs) :
                   Accepted(n) =>
                       /\ hProperties.def
                       /\ DataName(result.attrs[n].key) \in DOMAIN hProperties.map
                       /\ hProperties.map[DataName(result.attrs[n].key)]
                              = result.attrs[LastAccepted(result.attrs[n].key)].val
             /\ {LastWrites[i].name : i \in {j \in 1..Len(LastWrites) :
                                                  LastWrites[j].by = "attr"}}
                    = {DataName(result.attrs[n].key) :
                           n \in {j \in 1..Len(result.attrs) : Accepted(j)}}
             /\ meta = result.rest

\* An accepted attribute next to a rejected one, which is gone from both
C7_Witness ==
    /\ ProjectedMeta
    /\ pc = "returned"
    /\ \E n \in 1..Len(result.attrs) : Accepted(n) /\ InBag(result.attrs[n])
    /\ \E n \in 1..Len(result.attrs) :
          ~Accepted(n) /\ ~InBag(result.attrs[n]) /\ ~InMeta(result.attrs[n])

\* C8: after project runs on a node whose meta is a non-empty string,
\* node.meta is the rest the parser returned for that meta, and is removed
\* when rest is absent.
C8_Claim == ProjectedMeta => meta = result.rest

\* The language entry data-<langAttr> -> node.lang
LangWrite ==
    [pass |-> passes, name |-> DataName(langAttr.str), val |-> lang.str, by |-> "lang"]

\* C9 (handler variant): when langAttr is truthy and the node has a language,
\* data-<langAttr> -> node.lang is the first write into the property bag,
\* for every include and with or without a meta string; otherwise no
\* language entry is written.
C9_Theorem ==
    (variant = "handler" /\ Projected) =>
        IF Truthy(lang) /\ Truthy(langAttr)
        THEN /\ Len(LastWrites) >= 1
             /\ LastWrites[1] = LangWrite
             /\ hProperties.def
             /\ DataName(langAttr.str) \in DOMAIN hProperties.map
             /\ (\A i \in 2..Len(LastWrites) : LastWrites[i].name # LangWrite.name)
                    => hProperties.map[DataName(langAttr.str)] = lang.str
        ELSE \A i \in 1..Len(LastWrites) : LastWrites[i].by # "lang"

\* The language entry written for a node without meta under include = false
C9_Witness ==
    /\ variant = "handler"
    /\ passes = 1
    /\ ~before.meta.def
    /\ include = BoolP(FALSE)
    /\ Truthy(lang) /\ Truthy(langAttr)
    /\ hProperties.def
    /\ hProperties.map[DataName(langAttr.str)] = lang.str

\* C10 (plugin variant): for every visited code node with a language, with
\* langAttr truthy, data-<langAttr> is set in data.hProperties, whatever
\* include is and also when the node has no meta string.
C10_Claim ==
    (variant = "plugin" /\ Projected /\ Truthy(lang) /\ Truthy(langAttr)) =>
        /\ hProperties.def
        /\ DataName(langAttr.str) \in DOMAIN hProperties.map

\* The names the last pass wrote for parsed attributes
AttrNamesWritten ==
    {LastWrites[i].name : i \in {j \in 1..Len(LastWrites) : LastWrites[j].by = "attr"}}

\* Acceptance of (key, val) by include as C11 and C12 state it
RECURSIVE Accepts(_, _, _)
Accepts(pred, k, val) ==
    CASE pred.type \in {"boolean", "Boolean"} -> pred.val
      [] pred.type = "string"   -> pred.str = k
      [] pred.type = "regexp"   -> Test(pred, k)
      [] pred.type = "function" -> val # <<>>
      [] pred.type = "array"    -> \E n \in 1..Len(pred.elems) : Accepts(pred.elems[n], k, val)
      [] OTHER                  -> FALSE

\* C11 (handler variant): for include a boolean, a string, a RegExp, a
\* function or an array of these, the parsed attributes written to the
\* property bag are exactly those include accepts (boolean: its value;
\* string: equals key; RegExp: tests key; function: truthiness of f(key, val);
\* array: some element accepts), and with include = false no parsed
\* attribute is written.
C11_Claim ==
    (variant = "handler" /\ ProjectedMeta /\ include.type # "null") =>
        /\ AttrNamesWritten =
               {DataName(result.attrs[n].key) :
                    n \in {j \in 1..Len(result.attrs) :
                               Accepts(include, result.attrs[j].key, result.attrs[j].val)}}
        /\ include = BoolP(FALSE) => AttrNamesWritten = {}

\* C12 (plugin variant): when include is an array and the node's meta yields
\* at least one attribute, the visit completes without an exception and the
\* parsed attributes written are those that some element of the array accepts.
C12_Claim ==
    (variant = "plugin" /\ ProjectedMeta /\ include.type = "array"
        /\ Len(result.attrs) >= 1) =>
        /\ pc = "returned"
        /\ AttrNamesWritten =
               {DataName(result.attrs[n].key) :
                    n \in {j \in 1..Len(result.attrs) :
                               Accepts(include, result.attrs[j].key, result.attrs[j].val)}}

----------------------------------------------------------------------------
(* The name mappers of hast-data-to-properties.mjs *)

Letters == <<"a", "b", "c", "d", "e", "f", "g", "h", "i", "j", "k", "l", "m",
             "n", "o", "p", "q", "r", "s", "t", "u", "v", "w", "x", "y", "z">>
Capitals == <<"A", "B", "C", "D", "E", "F", "G", "H", "I", "J", "K", "L", "M",
              "N", "O", "P", "Q", "R", "S", "T", "U", "V", "W", "X", "Y", "Z">>
Upper == {Capitals[i] : i \in 1..26}

\* c.toUpperCase() of one character
ToUpperCase(c) ==
    IF c \in Lower THEN Capitals[CHOOSE i \in 1..26 : Letters[i] = c] ELSE c

\* \w
IsWord(c) == c \in Lower \cup Upper \cup Digit \cup {"_"}

\* A value a function returned
Result(v) == [called |-> TRUE, value |-> v]

\* asDataAttr without the test !/^xml/
asDataAttrXml(a) ==
    IF /\ Len(a) >= 1 /\ a[1] \in Lower \cup {"_"}
       /\ ~\E i \in 1..Len(a) : a[i] \notin Lower \cup Digit \cup {"_", ".", "-"}
    THEN Str(<<"d", "a", "t", "a", "-">> \o a)
    ELSE Undefined

\* /^[a-z_]/.test(attr) && !/[^a-z0-9_.-]/.test(attr) && !/^xml/.test(attr)
asDataAttr(a) ==
    IF /\ Len(a) >= 1 /\ a[1] \in Lower \cup {"_"}
       /\ ~\E i \in 1..Len(a) : a[i] \notin Lower \cup Digit \cup {"_", ".", "-"}
       /\ ~(Len(a) >= 3 /\ SubSeq(a, 1, 3) = <<"x", "m", "l">>)
    THEN Str(<<"d", "a", "t", "a", "-">> \o a)
    ELSE Undefined

\* asDataProp that keeps the case of the first character
asDataPropSameCase(p) ==
    IF /\ Len(p) >= 1 /\ p[1] \in Lower \cup Upper \cup {"_"}
       /\ ~\E i \in 1..Len(p) : ~IsWord(p[i])
    THEN Str(<<"d", "a", "t", "a">> \o p)
    ELSE Undefined

\* /^[A-Za-z_]/.test(prop) && !/[^\w]/.test(prop), then
\* 'data' + prop.charAt(0).toUpperCase() + prop.slice(1)
asDataProp(p) ==
    IF /\ Len(p) >= 1 /\ p[1] \in Lower \cup Upper \cup {"_"}
       /\ ~\E i \in 1..Len(p) : ~IsWord(p[i])
    THEN Str(<<"d", "a", "t", "a">> \o <<ToUpperCase(p[1])>> \o Slice(p, 1, Len(p)))
    ELSE Undefined

\* Every string up to this length over NameAlphabet is a key to map.
MaxKeyLen == 3

NameAlphabet == {"x", "m", "l", "X", "1", "-", "_", ":"}

NameExamples == {
    <<"s", "o", "u", "r", "c", "e", "-", "u", "r", "l">>,
    <<"x", "m", "l", "-", "l", "a", "n", "g">>,
    <<"s", "o", "u", "r", "c", "e", "U", "r", "l">> }

Keys == Strings(NameAlphabet, MaxKeyLen) \cup NameExamples

\* No code node is involved: the variables of the projection stay as they are
NoCode ==
    /\ variant = "none"
    /\ meta = Undefined
    /\ lang = Undefined
    /\ hProperties = Undefined
    /\ langAttr = Undefined
    /\ include = [type |-> "boolean", val |-> FALSE]
    /\ result = NoResult
    /\ matches = <<>>
    /\ pc = "ready"
    /\ passes = 0
    /\ writes = <<>>
    /\ before = Undefined

InitNames ==
    /\ NoCode
    /\ attr \in Keys
    /\ dataAttr = NoResult
    /\ dataProp = NoResult
    /\ data = Undefined
    /\ properties = <<>>
    /\ filter = Undefined
    /\ debug = <<>>
    /\ runs = 0
    /\ prev = Undefined

CallAsDataAttr ==
    /\ ~dataAttr.called
    /\ dataAttr' = Result(asDataAttr(attr))
    /\ UNCHANGED <<codeVars, attr, dataProp, data, properties, filter, debug, runs, prev>>

CallAsDataProp ==
    /\ ~dataProp.called
    /\ dataProp' = Result(asDataProp(attr))
    /\ UNCHANGED <<codeVars, attr, dataAttr, data, properties, filter, debug, runs, prev>>

NextNames == CallAsDataAttr \/ CallAsDataProp

SpecNames == InitNames /\ [][NextNames]_vars

----------------------------------------------------------------------------
(* Properties of the name mappers, checked under SpecNames *)

\* k matches ^[a-z_][a-z0-9_.-]*$
AttrGrammar(k) ==
    /\ Len(k) >= 1
    /\ k[1] \in Lower \cup {"_"}
    /\ \A i \in 2..Len(k) : k[i] \in Lower \cup Digit \cup {"_", ".", "-"}

StartsWithXml(k) == Len(k) >= 3 /\ k[1] = "x" /\ k[2] = "m" /\ k[3] = "l"

\* C13: asDataAttr(k) is 'data-' + k iff k matches ^[a-z_][a-z0-9_.-]*$ and
\* does not start with 'xml', and is undefined for every other string;
\* source-url gives data-source-url and xml-lang gives undefined.
C13_Theorem ==
    dataAttr.called =>
        /\ dataAttr.value = IF AttrGrammar(attr) /\ ~StartsWithXml(attr)
                            THEN Str(<<"d", "a", "t", "a", "-">> \o attr)
                            ELSE Undefined
        /\ attr = <<"s", "o", "u", "r", "c", "e", "-", "u", "r", "l">> =>
              dataAttr.value = Str(<<"d", "a", "t", "a", "-", "s", "o", "u", "r", "c", "e",
                                     "-", "u", "r", "l">>)
        /\ attr = <<"x", "m", "l", "-", "l", "a", "n", "g">> => dataAttr.value = Undefined

\* asDataAttr has refused a key of the grammar because it starts with xml
C13_Witness ==
    /\ dataAttr.called
    /\ AttrGrammar(attr) /\ StartsWithXml(attr)
    /\ dataAttr.value = Undefined

\* k matches ^[A-Za-z_]\w*$
PropGrammar(k) ==
    /\ Len(k) >= 1
    /\ k[1] \in Lower \cup Upper \cup {"_"}
    /\ \A i \in 2..Len(k) : IsWord(k[i])

\* C14: asDataProp(k) is 'data' + k with k's first character upper-cased iff
\* k matches ^[A-Za-z_]\w*$, and is undefined for every other string;
\* sourceUrl gives dataSourceUrl and source-url gives undefined.
C14_Theorem ==
    dataProp.called =>
        /\ dataProp.value = IF PropGrammar(attr)
                            THEN Str(<<"d", "a", "t", "a", ToUpperCase(attr[1])>>
                                        \o Tail(attr))
                            ELSE Undefined
        /\ attr = <<"s", "o", "u", "r", "c", "e", "U", "r", "l">> =>
              dataProp.value = Str(<<"d", "a", "t", "a", "S", "o", "u", "r", "c", "e",
                                     "U", "r", "l">>)
        /\ attr = <<"s", "o", "u", "r", "c", "e", "-", "u", "r", "l">> =>
              dataProp.value = Undefined

\* asDataProp has upper-cased the first character of a key
C14_Witness ==
    /\ dataProp.called
    /\ attr = <<"s", "o", "u", "r", "c", "e", "U", "r", "l">>
    /\ dataProp.value = Str(<<"d", "a", "t", "a", "S", "o", "u", "r", "c", "e",
                              "U", "r", "l">>)

\* C15: each name mapper is injective on the keys it accepts: no other key
\* is mapped to the name the key was mapped to, so the key can be recovered
\* from the name.
C15_Claim ==
    /\ (dataAttr.called /\ dataAttr.value.def) =>
           \A k \in Keys : asDataAttr(k) = dataAttr.value => k = attr
    /\ (dataProp.called /\ dataProp.value.def) =>
           \A k \in Keys : asDataProp(k) = dataProp.value => k = attr

----------------------------------------------------------------------------
(* The sweep of one matched element: the visitor of dataToProperties.
   node.data is Undefined or Obj(entries), its entries in property order;
   the visitor runs on each matched node of the tree on its own. *)

Obj(entries) == [def |-> TRUE, entries |-> entries]

\* shouldFilterData(filter, key, val); undefined (no branch taken, as for
\* the unset options.filter.data) is falsy
RECURSIVE shouldFilterData(_, _, _)
shouldFilterData(flt, k, val) ==
    CASE flt.type = "boolean"  -> flt.val
      [] flt.type = "Boolean"  -> TRUE    \* Boolean(filter) of an object
      [] flt.type = "string"   -> flt.str = k
      [] flt.type = "regexp"   -> Test(flt, k)
      [] flt.type = "function" -> val # <<>>
      [] flt.type = "array"    ->
            \E n \in 1..Len(flt.elems) : shouldFilterData(flt.elems[n], k, val)
      [] OTHER                 -> FALSE

\* let name = asDataAttr(key) ?? asDataProp(key)
Name(k) == IF asDataAttr(k).def THEN asDataAttr(k) ELSE asDataProp(k)

\* delete obj[name]
Delete(entries, name) == SelectSeq(entries, LAMBDA e : e.key # name)

\* The for loop over Object.entries(node.data), the array made before the
\* first iteration, from its i-th element on; st holds node.data's entries,
\* node.properties and the keys given to console.debug
RECURSIVE Loop(_, _, _, _)
Loop(entries, i, flt, st) ==
    IF i > Len(entries) THEN st
    ELSE LET k == entries[i].key
             val == entries[i].val
         IN  IF ~shouldFilterData(flt, k, val)
             THEN Loop(entries, i + 1, flt, st)
             ELSE IF ~Name(k).def
                  THEN Loop(entries, i + 1, flt,
                            [st EXCEPT !.debug = Append(st.debug, k)])
                  ELSE Loop(entries, i + 1, flt,
                            [st EXCEPT !.properties = Put(st.properties, Name(k).str, val),
                                       !.data = Delete(st.data, Name(k).str)])

\* Every node.data of up to this many entries over DataKeys is swept.
MaxEntries == 3
\* How often the transformer runs on the element at most
MaxRuns == 2

\* Keys asDataAttr accepts (x, data-x), keys only asDataProp accepts
\* (X, dataX, DataX) and a key neither accepts
DataKeys == { <<"x">>, <<"X">>, <<"d", "a", "t", "a", "-", "x">>,
              <<"d", "a", "t", "a", "X">>, <<"D", "a", "t", "a", "X">>, <<":">> }
DataVals == { <<>>, <<"v">> }

\* The entries of an object: no key twice
Entries ==
    {e \in UNION {[1..n -> [key : DataKeys, val : DataVals]] : n \in 0..MaxEntries} :
        \A i, j \in 1..Len(e) : e[i].key = e[j].key => i = j}

DataFilters == {NullP, BoolP(TRUE), StringP(<<"x">>), RegExpP(<<"D">>), FunctionP,
                ArrayP(<<StringP(<<"X">>), RegExpP(<<"d", "a", "t", "a", "X">>)>>)}

InitSweep ==
    /\ NoCode
    /\ attr = <<>>
    /\ dataAttr = NoResult
    /\ dataProp = NoResult
    /\ data \in {Undefined} \cup {Obj(e) : e \in Entries}
    /\ properties = EmptyMap
    /\ filter \in DataFilters
    /\ debug = <<>>
    /\ runs = 0
    /\ prev = [data |-> data, properties |-> properties, debug |-> debug]

\* The visitor of dataToProperties(options) on the element
Transform ==
    /\ runs < MaxRuns
    /\ runs' = runs + 1
    /\ prev' = [data |-> data, properties |-> properties, debug |-> debug]
    /\ IF ~data.def
       THEN UNCHANGED <<data, properties, debug>>
       ELSE \E st \in {Loop(data.entries, 1, filter,
                             [data |-> data.entries, properties |-> properties,
                              debug |-> debug])} :
                /\ properties' = st.properties
                /\ debug' = st.debug
                /\ data' = IF Len(st.data) = 0 THEN Undefined ELSE Obj(st.data)
    /\ UNCHANGED <<codeVars, attr, dataAttr, dataProp, filter>>

NextSweep == Transform

SpecSweep == InitSweep /\ [][NextSweep]_vars

----------------------------------------------------------------------------
(* Properties of the sweep, checked under SpecSweep *)

\* The entries node.data had before the last run, and the keys it has now
PrevEntries == IF prev.data.def THEN prev.data.entries ELSE <<>>
DataNow == IF data.def THEN {data.entries[i] : i \in 1..Len(data.entries)} ELSE {}

\* The entry passes options.filter.data and its key has a mapped name
Passes(e) == shouldFilterData(filter, e.key, e.val)
Convertible(e) == Passes(e) /\ Name(e.key).def

\* C16: after a run, for every entry (key, val) of the element's data that
\* passes the data filter and has a mapped name, properties[name] is set and
\* the entry's key is gone from node.data; when every entry was converted,
\* node.data is removed.
C16_Claim ==
    (runs >= 1 /\ prev.data.def) =>
        /\ \A i \in 1..Len(PrevEntries) :
              Convertible(PrevEntries[i]) =>
                  /\ Name(PrevEntries[i].key).str \in DOMAIN properties
                  /\ \A e \in DataNow : e.key # PrevEntries[i].key
        /\ (\A i \in 1..Len(PrevEntries) : Convertible(PrevEntries[i])) => ~data.def

\* C17: a second run of the transformer changes neither node.data nor
\* node.properties.
C17_Claim ==
    runs >= 2 => (data = prev.data /\ properties = prev.properties)

\* The keys given to console.debug by the last run
NewDebug == SubSeq(debug, Len(prev.debug) + 1, Len(debug))

\* C18: after a run, an entry that passes the data filter and has no mapped
\* name has caused exactly one diagnostic and is still in node.data with its
\* value; an entry that fails the data filter is still in node.data with its
\* value; properties has a new name only for entries that pass and have a
\* mapped name (the entries after a diagnostic are still converted), and
\* with the filter unset nothing changes.
C18_Claim ==
    (runs >= 1 /\ prev.data.def) =>
        /\ \A i \in 1..Len(PrevEntries) :
              (Passes(PrevEntries[i]) /\ ~Name(PrevEntries[i].key).def) =>
                  /\ Cardinality({j \in 1..Len(NewDebug) :
                                      NewDebug[j] = PrevEntries[i].key}) = 1
                  /\ PrevEntries[i] \in DataNow
        /\ \A i \in 1..Len(PrevEntries) :
              ~Passes(PrevEntries[i]) => PrevEntries[i] \in DataNow
        /\ DOMAIN properties \ DOMAIN prev.properties \subseteq
               {Name(PrevEntries[i].key).str :
                    i \in {j \in 1..Len(PrevEntries) : Convertible(PrevEntries[j])}}
        /\ \A i \in 1..Len(PrevEntries) :
              Convertible(PrevEntries[i]) => Name(PrevEntries[i].key).str \in DOMAIN properties
        /\ filter = NullP =>
              /\ DataNow = {PrevEntries[i] : i \in 1..Len(PrevEntries)}
              /\ properties = prev.properties
              /\ NewDebug = <<>>

----------------------------------------------------------------------------
(* Repeated projection and the order of the writes, checked under
   SpecProject *)

\* C19: a second projection of a node changes neither node.meta nor the
\* property bag, also when a parsed attribute overrode the language entry
\* in the first pass and when a rest was left in node.meta.
C19_Claim ==
    passes >= 2 => (meta = before.meta /\ hProperties = before.hProperties)

\* The parsed attributes that include accepts as C11 states it
Included(n) == Accepts(include, result.attrs[n].key, result.attrs[n].val)
IncludedWith(k) == {n \in 1..Len(result.attrs) : result.attrs[n].key = k /\ Included(n)}

\* C20: in a projection of a node with meta, the language entry is written
\* before every parsed attribute and the included attributes follow in parse
\* order; data-<key> of an included attribute holds the value of the key's
\* last included occurrence, which replaces the language value when key is
\* langAttr, and the language value stays when no included attribute has
\* that key.
C20_Claim ==
    ProjectedMeta =>
        /\ \A i, j \in 1..Len(LastWrites) :
              (LastWrites[i].by = "attr" /\ LastWrites[j].by = "lang") => j < i
        /\ \A i, j \in 1..Len(LastWrites) :
              (i < j /\ LastWrites[i].by = "attr" /\ LastWrites[j].by = "attr") =>
                  \E m, n \in 1..Len(result.attrs) :
                      /\ m < n
                      /\ DataName(result.attrs[m].key) = LastWrites[i].name
                      /\ DataName(result.attrs[n].key) = LastWrites[j].name
        /\ \A n \in 1..Len(result.attrs) :
              Included(n) =>
                  /\ hProperties.def
                  /\ DataName(result.attrs[n].key) \in DOMAIN hProperties.map
                  /\ hProperties.map[DataName(result.attrs[n].key)] =
                        result.attrs[SetMax(IncludedWith(result.attrs[n].key))].val
        /\ (Truthy(lang) /\ Truthy(langAttr) /\ IncludedWith(langAttr.str) = {}) =>
              /\ hProperties.def
              /\ DataName(langAttr.str) \in DOMAIN hProperties.map
              /\ hProperties.map[DataName(langAttr.str)] = lang.str

----------------------------------------------------------------------------
(* Termination and partition of parse, checked under Spec *)

\* The index up to which the matches of the loop consumed the input
Consumed == IF Len(matches) = 0 THEN 0 ELSE matches[Len(matches)].lastIndex

\* C21: parse returns for every string: each match of its loop starts where
\* the one before ended and consumes at least one character.  The input is
\* the consumed prefix followed by rest; rest is absent exactly when the
\* prefix is the whole input (the empty input included) and is otherwise a
\* non-empty suffix, never the empty string.
C21_Theorem ==
    Returned =>
        /\ \A n \in 1..Len(matches) :
              /\ matches[n].index = (IF n = 1 THEN 0 ELSE matches[n - 1].lastIndex)
              /\ matches[n].lastIndex > matches[n].index
              /\ matches[n].lastIndex <= Len(meta.str)
        /\ Len(result.attrs) = Len(matches)
        /\ (result.rest = Undefined) <=> (Consumed = Len(meta.str))
        /\ result.rest.def =>
              /\ Len(result.rest.str) >= 1
              /\ meta.str = Slice(meta.str, 0, Consumed) \o result.rest.str
        /\ meta.str = <<>> => result.rest = Undefined

\* Two matches consumed a proper prefix and a non-empty rest follows it
C21_Witness ==
    /\ Returned
    /\ Len(matches) >= 2
    /\ result.rest.def
    /\ Consumed < Len(meta.str)
    /\ meta.str = Slice(meta.str, 0, Consumed) \o result.rest.str

----------------------------------------------------------------------------
(* The names written for parsed attributes, checked under SpecProject *)

\* C22: every key that parse (either variant) puts into attrs is accepted
\* by asDataAttr, and every name the projection writes for a parsed
\* attribute is asDataAttr(key) of a parsed key: 'data-' followed by a key
\* of [a-z_][a-z0-9_.-]* that does not start with xml, hence without
\* whitespace, '=', quotes, upper-case letters or a colon.
C22_Theorem ==
    ProjectedMeta =>
        /\ \A n \in 1..Len(result.attrs) :
              /\ asDataAttr(result.attrs[n].key).def
              /\ asDataAttr(result.attrs[n].key) = Str(DataName(result.attrs[n].key))
        /\ \A name \in AttrNamesWritten :
              /\ \E n \in 1..Len(result.attrs) : Str(name) = asDataAttr(result.attrs[n].key)
              /\ \A i \in 1..Len(name) : name[i] \in Lower \cup Digit \cup {"_", ".", "-"}
              /\ ~StartsWithXml(Slice(name, 5, Len(name)))

\* An attribute was written under asDataAttr(key) and the parser stopped at
\* a token that starts with xml
C22_Witness ==
    /\ ProjectedMeta
    /\ pc = "returned"
    /\ \E n \in 1..Len(result.attrs) :
          /\ asDataAttr(result.attrs[n].key).def
          /\ asDataAttr(result.attrs[n].key).str \in AttrNamesWritten
    /\ result.rest.def
    /\ StartsWithXml(result.rest.str)

====
